---- MODULE Spec2Model ----
(***************************************************************************)
(* A model of compare_images.py, the perceptual-duplicate detection and    *)
(* review engine: the cache integrity guard, the scan, the group cache     *)
(* load / prune / invalidate step, the hashing loop, the grouping loop,    *)
(* the review loop (no-GUI and interactive) and the final relocation of    *)
(* imports.  One run of main() is a sequence of steps of the program       *)
(* counter pc; between two runs the environment may change the image       *)
(* files.  The files of the target directory, of the working directory and *)
(* the image files themselves are the persistent state.                    *)
(***************************************************************************)
EXTENDS Integers, Sequences, FiniteSets, TLC

\* ------------------------------------------------------------ bounds
\* Number of runs of main() a behaviour holds.
MaxRuns == 2
\* Changes the environment makes to the image files between two runs.
MaxEnvOps == 1
\* Largest modification time an image file reaches.
MaxMtime == 2
\* Files of the directory in the hashing loop taken by numbers.
MaxFiles == 205
\* Names a_imported_1, a_imported_2, ... taken in the primary directory
\* before a relocation; beyond this bound only "all of them" is tried.
MaxTaken == 60

\* ------------------------------------------------- program constants
\* for i in range(1, 10000): the collision suffixes move_to_primary tries.
SuffixLimit == 10000
\* --auto without a value: const=10.
AutoSeconds == 10
\* if i > 0 and i % 100 == 0: the block of the periodic hash cache flush.
BlockSize == 100

\* ------------------------------------------------------- image files
\* Base names of the files of the primary directory and of the import
\* directory ("a" is in both, so a relocation of the import file collides
\* with the primary file whenever that one exists).
PrimaryBases == {"a", "b", "c"}
ImportBases == {"a"}

\* A path: its directory (P: primary, I: import), the base name and the
\* number n of the suffix _imported_n (0: none).  The extension is fixed.
Paths ==
    {[dir |-> "P", base |-> b, n |-> 0] : b \in PrimaryBases}
    \cup {[dir |-> "P", base |-> b, n |-> k] : b \in ImportBases, k \in 1..MaxRuns}
    \cup {[dir |-> "I", base |-> b, n |-> 0] : b \in ImportBases}

InitialPaths == {p \in Paths : p.n = 0}

BaseRank(b) == CASE b = "a" -> 1 [] b = "b" -> 2 [] b = "c" -> 3 [] OTHER -> 4

\* The order in which a directory walk lists the files: the primary tree
\* first (rglob of args.directory), then the import tree.
PathRank(p) == (IF p.dir = "P" THEN 0 ELSE 100) + 10 * BaseRank(p.base) + p.n

\* What an image file holds.  0 is no file; 1 and 2 are the same picture at
\* a low and a high resolution (one perceptual hash); 3 is another picture;
\* 4 is a file no image library can open; 5 is the picture of 1, at the
\* resolution of 1, with an EXIF capture date of November 2023.
Contents == 1..5
NoFile == 0
\* The files there are before the first run, and the ones somebody adds,
\* are readable images; an edit may leave a file unreadable.
ReadableContents == 1..3
\* What an edit makes of a file: the low resolution picture becomes the high
\* resolution one, that one the other picture, that one unreadable.
EditedContent(c) == (c % 4) + 1

\* A perceptual hash is a bit signature (here two bits); <<>> stands for
\* None, the result of compute_hash on an unreadable file.
NoHash == <<>>
ContentHash(c) ==
    CASE c = 1 -> <<0, 1>>
      [] c = 2 -> <<0, 1>>
      [] c = 3 -> <<1, 0>>
      [] c = 5 -> <<0, 1>>
      [] OTHER -> NoHash

\* width * height of the image; 0 when the file cannot be opened.
ContentResolution(c) ==
    CASE c = 1 -> 1
      [] c = 2 -> 4
      [] c = 3 -> 1
      [] c = 5 -> 1
      [] OTHER -> 0

\* str(h): the hexadecimal digit of the bit signature.
HashStr(h) == 2 * h[1] + h[2]

\* ------------------------------------------------------------- state
VARIABLES
    \* persistent state
    disk,            \* path -> [content, mtime]; content 0: no such file
    cwdIsDir,        \* the working directory is the target directory
    groupsFile,      \* <directory>/.groups_cache.pkl
    hashFile,        \* <directory>/.hash_cache_<hash>.pkl
    dirReviewedFile, \* <directory>/.reviewed_groups.pkl
    dirDeletedFile,  \* <directory>/.deleted_images.pkl
    cwdReviewedFile, \* ./.reviewed_groups.pkl when . is not the directory
    cwdDeletedFile,  \* ./.deleted_images.pkl when . is not the directory
    deletedLog,      \* <directory>/deleted_files.log, one path per line
    \* one run of main()
    pc,              \* the position of main()
    run,             \* runs started so far
    envOps,          \* changes of the environment since the last run
    no_gui,          \* args.no_gui
    image_files,     \* the scan, in order
    image_sources,   \* the paths of the scan tagged 'import'
    groups,          \* sequence of groups, a group a sequence of [img, h]
    visited,
    cached_files,    \* all_group_files, computed before the prune
    hash_cache,      \* set of [img, mtime, h]
    hash_cache_updated,
    hashes,          \* sequence of [img, h]
    i,               \* index of the running loop (hashing, grouping)
    ungrouped_hashes,
    reviewed_cache,  \* [kind, items]: a set, or the dict a sentinel unpickles to
    deleted_cache,
    idx,             \* index of the review loop
    shown,           \* the group as show_group_interactive ordered it
    result,          \* [action, target]
    action_taken,
    j,               \* index of the member the decision is being applied to
    \* what a behaviour is given
    auto,            \* args.auto: seconds of the timer, 0 when there is none
    walk,            \* the order in which a directory lists its files
    denied,          \* the operations the system refuses
    fallback,        \* the caches written to ~/.photosort_cache_<name>
    \* history (read by no action)
    hist

persistent ==
    <<disk, cwdIsDir, groupsFile, hashFile, dirReviewedFile, dirDeletedFile,
      cwdReviewedFile, cwdDeletedFile, deletedLog>>

local ==
    <<no_gui, image_files, image_sources, groups, visited, cached_files,
      hash_cache, hash_cache_updated, hashes, i, ungrouped_hashes,
      reviewed_cache, deleted_cache, idx, shown, result, action_taken, j>>

\* The command line and the environment of a behaviour: no action changes them.
given == <<auto, walk, denied>>

vars == <<persistent, local, pc, run, envOps, hist, given, fallback>>

\* ------------------------------------------------------ file contents
AbsentFile == [kind |-> "absent", items |-> {}]
\* pickle.dump({'test': 123}): what the guard's write test leaves.
SentinelFile == [kind |-> "sentinel", items |-> {}]
SetFile(s) == [kind |-> "data", items |-> s]

AbsentGroups == [kind |-> "absent", groups |-> <<>>, visited |-> {}]
SentinelGroups == [kind |-> "sentinel", groups |-> <<>>, visited |-> {}]
\* A file pickle.load cannot read: cut short, or not a pickle.
CorruptGroups == [kind |-> "corrupt", groups |-> <<>>, visited |-> {}]
GroupsData(g, v) == [kind |-> "data", groups |-> g, visited |-> v]

\* None, where a path may stand.
NoPath == [dir |-> "-", base |-> "-", n |-> 0]
NoResult == [action |-> "none", target |-> NoPath]
NoCache == [kind |-> "set", items |-> {}]

Present(d, p) == d[p].content # NoFile

\* ------------------------------------------------------ sequences
Range(s) == {s[k] : k \in 1..Len(s)}

RECURSIVE SetToSortedSeq(_)
\* The paths of S in the order of the directory walk.
SetToSortedSeq(S) ==
    IF S = {} THEN <<>>
    ELSE LET p == CHOOSE x \in S : \A y \in S : PathRank(x) <= PathRank(y)
         IN  <<p>> \o SetToSortedSeq(S \ {p})

GroupImgs(g) == {g[k].img : k \in 1..Len(g)}

AllGroupFiles(gs) == UNION {GroupImgs(gs[k]) : k \in 1..Len(gs)}


\* ------------------------------------------------------------ history
\* What the claims read of the past; no action's guard or effect reads it.
\*   scanPrev, scanCur        the files the previous and this run scanned
\*   groupsPrev, groupsCur    the groups (member sets) at the end of grouping
\*   groupedPrev, groupedCur  the grouping phase of the run has ended
\*   recordedPrev             identities the previous run recorded as reviewed
\*   recordedEarlier          identities any earlier run recorded as reviewed
\*   recorded, presented, applied   this run's: recorded as reviewed, shown
\*                            in a window, decision applied
\*   persistedPrev, persisted the last (groups, visited) main() wrote to the
\*                            group cache in the previous and in this run
\*   groupStart               the groups the grouping pass started from
\*   removed                  the files os.remove removed in this run
\*   fsFailed                 the system refused a removal in this run
\*   computed                 the files compute_hash was called for in this run
\*   hashWritten              every entry save_hash_cache ever wrote
\*   chosen, chosenFile       the target of the decision before its relocation,
\*                            and the file it names
\*   groupsAtStart            the kind of the group cache file as the last run
\*                            found it
\*   aborted                  the last run ended by sys.exit or by an exception
\*                            nothing caught
\*   finalMoved               the imports the last run relocated after its
\*                            review loop
\*   interrupted              where the last run was when it was killed ("none":
\*                            it was not)
\*   interruptedGroup         the identity of the group whose decision was being
\*                            applied then
\*   returned                 (move_to_primary alone) the path it returned
\*   unwritten                (hashing loop by numbers) the hashes computed
\*                            since the hash cache file was last written
NoHist ==
    [scanPrev |-> {}, scanCur |-> {},
     groupsPrev |-> {}, groupsCur |-> {}, groupedPrev |-> FALSE, groupedCur |-> FALSE,
     recordedPrev |-> {}, recordedEarlier |-> {}, recorded |-> {},
     presented |-> {}, applied |-> {},
     persistedPrev |-> AbsentGroups, persisted |-> AbsentGroups,
     groupStart |-> <<>>,
     removed |-> {}, fsFailed |-> FALSE, computed |-> {},
     hashWritten |-> {}, chosen |-> NoPath,
     chosenFile |-> [content |-> NoFile, mtime |-> 0],
     groupsAtStart |-> "absent", aborted |-> FALSE, finalMoved |-> {},
     interrupted |-> "none", interruptedGroup |-> <<>>, unwritten |-> 0,
     returned |-> NoPath]

\* The history as the end of a run leaves it: what was this run's is the
\* previous run's.
EndHist(h) ==
    [h EXCEPT
       !.scanPrev = h.scanCur, !.scanCur = {},
       !.groupsPrev = h.groupsCur, !.groupsCur = {},
       !.groupedPrev = h.groupedCur, !.groupedCur = FALSE,
       !.recordedPrev = h.recorded,
       !.recordedEarlier = h.recordedEarlier \cup h.recorded,
       !.recorded = {}, !.presented = {}, !.applied = {},
       !.persistedPrev = h.persisted, !.persisted = AbsentGroups,
       !.groupStart = <<>>,
       !.removed = {}, !.fsFailed = FALSE, !.computed = {},
       !.chosen = NoPath, !.chosenFile = [content |-> NoFile, mtime |-> 0],
       !.interrupted = "none", !.interruptedGroup = <<>>]

\* ... and as sys.exit, or an exception nothing catches, leaves it.
AbortHist(h) == [EndHist(h) EXCEPT !.aborted = TRUE]

\* ------------------------------------------------------------- refusals
\* The operations the system may refuse (PermissionError): the test write of
\* the guard on the group cache and on the hash cache, the removal of a cache
\* file, the write of the hash cache, of the group cache, of the reviewed
\* and deleted caches, of the fallback file, and the move of an image.
Ops ==
    {"test_groups", "test_hash", "unlink", "write_hash", "write_groups",
     "write_pickle", "write_fallback", "move"}

Denied(op) == op \in denied

\* The except PermissionError branch of a save: the cache goes to the
\* fallback file of its name, ~/.photosort_cache_<name>; when that write
\* fails too, a message is printed and nothing is written.
SavedToFallback(fb, name) == IF Denied("write_fallback") THEN fb ELSE fb \cup {name}

\* --------------------------------------------------------------- Init
LocalInit ==
    /\ no_gui = FALSE
    /\ image_files = <<>>
    /\ image_sources = {}
    /\ groups = <<>>
    /\ visited = {}
    /\ cached_files = {}
    /\ hash_cache = {}
    /\ hash_cache_updated = FALSE
    /\ hashes = <<>>
    /\ i = 0
    /\ ungrouped_hashes = <<>>
    /\ reviewed_cache = NoCache
    /\ deleted_cache = NoCache
    /\ idx = 0
    /\ shown = <<>>
    /\ result = NoResult
    /\ action_taken = FALSE
    /\ j = 0

\* The process ends (normally, or by an uncaught exception): nothing of
\* main()'s variables is left.
LocalReset ==
    /\ no_gui' = FALSE
    /\ image_files' = <<>>
    /\ image_sources' = {}
    /\ groups' = <<>>
    /\ visited' = {}
    /\ cached_files' = {}
    /\ hash_cache' = {}
    /\ hash_cache_updated' = FALSE
    /\ hashes' = <<>>
    /\ i' = 0
    /\ ungrouped_hashes' = <<>>
    /\ reviewed_cache' = NoCache
    /\ deleted_cache' = NoCache
    /\ idx' = 0
    /\ shown' = <<>>
    /\ result' = NoResult
    /\ action_taken' = FALSE
    /\ j' = 0

\* Before the first run: any image files in the two directories, no cache
\* file anywhere, the program started from the target directory or not.
Init ==
    /\ disk \in [Paths -> [content : {NoFile} \cup ReadableContents, mtime : 0..1]]
    /\ \A p \in Paths :
          /\ (p \notin InitialPaths) => disk[p].content = NoFile
          /\ disk[p].mtime = (IF disk[p].content = NoFile THEN 0 ELSE 1)
    /\ cwdIsDir \in BOOLEAN
    /\ groupsFile = AbsentGroups
    /\ hashFile = AbsentFile
    /\ dirReviewedFile = AbsentFile
    /\ dirDeletedFile = AbsentFile
    /\ cwdReviewedFile = AbsentFile
    /\ cwdDeletedFile = AbsentFile
    /\ deletedLog = <<>>
    /\ pc = "idle"
    /\ run = 0
    /\ envOps = 0
    /\ LocalInit
    /\ hist = NoHist
    /\ auto = 0
    /\ walk = "asc"
    /\ denied = {}
    /\ fallback = {}

\* -------------------------------------------------------- environment
\* Between two runs somebody adds an image file, ...
EnvAdd(p, c) ==
    /\ pc = "idle" /\ run >= 1 /\ run < MaxRuns /\ envOps < MaxEnvOps
    /\ ~Present(disk, p)
    /\ disk' = [disk EXCEPT ![p] = [content |-> c, mtime |-> 1]]
    /\ envOps' = envOps + 1
    /\ UNCHANGED <<cwdIsDir, groupsFile, hashFile, dirReviewedFile, dirDeletedFile,
                   cwdReviewedFile, cwdDeletedFile, deletedLog, local, pc, run, hist>>
    /\ UNCHANGED given
    /\ UNCHANGED fallback

\* ... removes one, ...
EnvRemove(p) ==
    /\ pc = "idle" /\ run >= 1 /\ run < MaxRuns /\ envOps < MaxEnvOps
    /\ Present(disk, p)
    /\ disk' = [disk EXCEPT ![p] = [content |-> NoFile, mtime |-> 0]]
    /\ envOps' = envOps + 1
    /\ UNCHANGED <<cwdIsDir, groupsFile, hashFile, dirReviewedFile, dirDeletedFile,
                   cwdReviewedFile, cwdDeletedFile, deletedLog, local, pc, run, hist>>
    /\ UNCHANGED given
    /\ UNCHANGED fallback

\* ... or edits one, which moves its modification time on.
EnvTouch(p, c) ==
    /\ pc = "idle" /\ run >= 1 /\ run < MaxRuns /\ envOps < MaxEnvOps
    /\ Present(disk, p)
    /\ disk[p].mtime < MaxMtime
    /\ disk' = [disk EXCEPT ![p] = [content |-> c, mtime |-> disk[p].mtime + 1]]
    /\ envOps' = envOps + 1
    /\ UNCHANGED <<cwdIsDir, groupsFile, hashFile, dirReviewedFile, dirDeletedFile,
                   cwdReviewedFile, cwdDeletedFile, deletedLog, local, pc, run, hist>>
    /\ UNCHANGED given
    /\ UNCHANGED fallback

\* ------------------------------------------------------------ a run
\* python compare_images.py <directory> [--no-gui] --import <import dir>
StartRun(ng) ==
    /\ pc = "idle" /\ run < MaxRuns
    /\ pc' = "guard"
    /\ run' = run + 1
    /\ envOps' = 0
    /\ no_gui' = ng
    /\ hist' = [hist EXCEPT !.groupsAtStart = groupsFile.kind,
                            !.aborted = FALSE, !.finalMoved = {}]
    /\ UNCHANGED <<persistent, image_files, image_sources, groups, visited,
                   cached_files, hash_cache, hash_cache_updated, hashes, i,
                   ungrouped_hashes, reviewed_cache, deleted_cache, idx, shown,
                   result, action_taken, j>>
    /\ UNCHANGED given
    /\ UNCHANGED fallback

\* The write/read test of one cache file of the directory: a file that
\* exists is overwritten with the sentinel payload {'test': 123}.
TestWriteRead(f) == IF f.kind = "absent" THEN f ELSE SentinelFile

TestWriteReadGroups(f) == IF f.kind = "absent" THEN f ELSE SentinelGroups

\* The hash cache file is created when missing, tested like the others and
\* then rewritten as an empty dict.
RestoreEmptyHashCache(f) == SetFile({})

\* sys.exit(1), or an exception that nothing catches: the process ends.
ExitRun ==
    /\ pc' = "idle"
    /\ LocalReset
    /\ hist' = AbortHist(hist)

\* How the guard ends.  The hash cache file is created first when it is
\* missing; then the files that exist are tested in the order of the list:
\* the group cache, the reviewed and deleted caches of the directory, the
\* hash cache.
GuardOutcome ==
    IF hashFile.kind = "absent" /\ Denied("test_hash") THEN "create_failed"
    ELSE IF groupsFile.kind # "absent" /\ Denied("test_groups") THEN "groups_failed"
    ELSE IF Denied("test_hash") THEN "hash_failed"
    ELSE "passed"

\* os.remove(cache_file) after a failed test: the file is gone (gone), or
\* the removal is refused, which is reported, and the file f stays.
RemoveAfterFailedTestKept(f, gone) == f

RemoveAfterFailedTest(f, gone) == IF Denied("unlink") THEN f ELSE gone

\* ensure_cache_files_writable(args.directory, args.hash): every test
\* passes, or the first one that fails removes its file and ends the run.
Guard ==
    /\ pc = "guard"
    /\ CASE GuardOutcome = "passed" ->
              /\ groupsFile' = TestWriteReadGroups(groupsFile)
              /\ dirReviewedFile' = TestWriteRead(dirReviewedFile)
              /\ dirDeletedFile' = TestWriteRead(dirDeletedFile)
              /\ hashFile' = RestoreEmptyHashCache(TestWriteRead(hashFile))
              /\ pc' = "scan"
              /\ UNCHANGED <<local, hist>>
         [] GuardOutcome = "create_failed" ->
              /\ UNCHANGED <<groupsFile, dirReviewedFile, dirDeletedFile, hashFile>>
              /\ ExitRun
         [] GuardOutcome = "groups_failed" ->
              /\ groupsFile' = RemoveAfterFailedTest(groupsFile, AbsentGroups)
              /\ UNCHANGED <<dirReviewedFile, dirDeletedFile, hashFile>>
              /\ ExitRun
         [] GuardOutcome = "hash_failed" ->
              /\ groupsFile' = TestWriteReadGroups(groupsFile)
              /\ dirReviewedFile' = TestWriteRead(dirReviewedFile)
              /\ dirDeletedFile' = TestWriteRead(dirDeletedFile)
              /\ hashFile' = RemoveAfterFailedTest(hashFile, AbsentFile)
              /\ ExitRun
    /\ UNCHANGED <<disk, cwdIsDir, cwdReviewedFile, cwdDeletedFile, deletedLog,
                   run, envOps>>
    /\ UNCHANGED given
    /\ UNCHANGED fallback

\* rglob lists the files of a tree in the order of the file system, which
\* is not fixed: by name ("asc") or against it ("desc").
Walks == {"asc", "desc"}

\* The place of a path in the walk w of its tree; the primary tree comes
\* first, the import tree is appended.
WalkRank(p, w) ==
    (IF p.dir = "P" THEN 0 ELSE 100)
    + (IF w = "asc" THEN 10 * BaseRank(p.base) + p.n
       ELSE 99 - (10 * BaseRank(p.base) + p.n))

RECURSIVE WalkSeq(_, _)
WalkSeq(S, w) ==
    IF S = {} THEN <<>>
    ELSE LET p == CHOOSE x \in S : \A y \in S : WalkRank(x, w) <= WalkRank(y, w)
         IN  <<p>> \o WalkSeq(S \ {p}, w)

\* The files the walk of both directories finds, and their sources.
ScanFiles(d) == WalkSeq({p \in Paths : Present(d, p)}, walk)

Scan ==
    /\ pc = "scan"
    /\ image_files' = ScanFiles(disk)
    /\ image_sources' = {p \in Paths : Present(disk, p) /\ p.dir = "I"}
    /\ hist' = [hist EXCEPT !.scanCur =
                  {[img |-> p, mtime |-> disk[p].mtime, content |-> disk[p].content] :
                     p \in {q \in Paths : Present(disk, q)}}]
    /\ pc' = "load"
    /\ UNCHANGED <<persistent, no_gui, groups, visited, cached_files, hash_cache,
                   hash_cache_updated, hashes, i, ungrouped_hashes, reviewed_cache,
                   deleted_cache, idx, shown, result, action_taken, j, run, envOps>>
    /\ UNCHANGED given
    /\ UNCHANGED fallback


\* ------------------------------------------------- the group cache
\* pickle.load of the group cache and the filter of the valid groups: a
\* (groups, visited) tuple is taken as it is; the sentinel dict is taken as
\* the groups, its key is no valid group, and nothing is left; a file that
\* does not unpickle raises, and the except branch leaves [] and set().
LoadedGroups(f) == IF f.kind = "data" THEN f.groups ELSE <<>>

LoadedVisitedStale(f) == IF f.kind = "absent" THEN {} ELSE InitialPaths

LoadedVisited(f) == IF f.kind = "data" THEN f.visited ELSE {}

RECURSIVE FilterSeq(_, _)
\* [x for x in s if x.img in keep]
FilterSeq(s, keep) ==
    IF s = <<>> THEN <<>>
    ELSE (IF Head(s).img \in keep THEN <<Head(s)>> ELSE <<>>) \o FilterSeq(Tail(s), keep)

RECURSIVE PruneGroups(_, _)
\* The groups without the members that are not in current_files, and
\* without the groups this leaves with one member or none.
PruneGroups(gs, current_files) ==
    IF gs = <<>> THEN <<>>
    ELSE LET new_group == FilterSeq(Head(gs), current_files)
         IN  (IF Len(new_group) > 1 THEN <<new_group>> ELSE <<>>)
             \o PruneGroups(Tail(gs), current_files)

PruneVisited(v, current_files) == {img \in v : img \in current_files}

\* Lines 439-506: load the group cache, drop the invalid groups, prune the
\* files that are gone and write the pruned state back.
LoadGroups ==
    /\ pc = "load"
    /\ LET loaded_groups == LoadedGroups(groupsFile)
           loaded_visited == LoadedVisited(groupsFile)
           current_files == Range(image_files)
           all_group_files == AllGroupFiles(loaded_groups)
           deleted_files == all_group_files \ current_files
       IN  /\ cached_files' = all_group_files
           /\ IF deleted_files # {}
              THEN /\ groups' = PruneGroups(loaded_groups, current_files)
                   /\ visited' = PruneVisited(loaded_visited, current_files)
                   /\ IF Denied("write_groups")
                      THEN /\ groupsFile' = groupsFile
                           /\ fallback' = SavedToFallback(fallback, "groups")
                           /\ hist' = hist
                      ELSE /\ groupsFile' = GroupsData(groups', visited')
                           /\ fallback' = fallback
                           /\ hist' = [hist EXCEPT
                                         !.persisted = GroupsData(groups', visited')]
              ELSE /\ groups' = loaded_groups
                   /\ visited' = loaded_visited
                   /\ groupsFile' = groupsFile
                   /\ fallback' = fallback
                   /\ hist' = hist
    /\ pc' = "invalidate"
    /\ UNCHANGED <<disk, cwdIsDir, hashFile, dirReviewedFile, dirDeletedFile,
                   cwdReviewedFile, cwdDeletedFile, deletedLog, no_gui, image_files,
                   image_sources, hash_cache, hash_cache_updated, hashes, i,
                   ungrouped_hashes, reviewed_cache, deleted_cache, idx, shown, result,
                   action_taken, j, run, envOps>>
    /\ UNCHANGED given

\* current_files - cached_files
NewFiles(files, cached) == Range(files) \ cached

\* The group cache file left in place: what Invalidate would do without the unlink.
UnlinkGroupsForgotten(f) == f

\* GROUPS_CACHE.unlink() when the file exists.
UnlinkGroups(f) == AbsentGroups

\* load_hash_cache: the dict of the file, {} when there is none.
LoadHashCache(f) == IF f.kind = "data" THEN f.items ELSE {}

\* Lines 507-521: a file of the scan that is in no cached group discards the
\* group cache; then the hash cache is loaded.
Invalidate ==
    /\ pc = "invalidate"
    /\ IF NewFiles(image_files, cached_files) # {}
       THEN /\ groupsFile' = UnlinkGroups(groupsFile)
            /\ groups' = <<>>
            /\ visited' = {}
       ELSE UNCHANGED <<groupsFile, groups, visited>>
    /\ hash_cache' = LoadHashCache(hashFile)
    /\ hashes' = <<>>
    /\ hash_cache_updated' = FALSE
    /\ i' = 0
    /\ pc' = "hash"
    /\ UNCHANGED <<disk, cwdIsDir, hashFile, dirReviewedFile, dirDeletedFile,
                   cwdReviewedFile, cwdDeletedFile, deletedLog, no_gui, image_files,
                   image_sources, cached_files, ungrouped_hashes, reviewed_cache,
                   deleted_cache, idx, shown, result, action_taken, j, run, envOps, hist>>
    /\ UNCHANGED given
    /\ UNCHANGED fallback

\* ------------------------------------------------------ the hash cache
\* A key of the path alone: what the loop would do were st_mtime left out.
CacheKeyPathOnly(img, d) == [img |-> img, mtime |-> 0]

\* cache_key = (img_path, img_stat.st_mtime)
CacheKey(img, d) == [img |-> img, mtime |-> d[img].mtime]

InHashCache(cache, key) == \E e \in cache : e.img = key.img /\ e.mtime = key.mtime

Lookup(cache, key) == (CHOOSE e \in cache : e.img = key.img /\ e.mtime = key.mtime).h

\* compute_hash(img_path, hasher)
ComputeHash(img, d) == ContentHash(d[img].content)

\* hash_cache[cache_key] = h
Store(cache, key, h) ==
    {e \in cache : ~(e.img = key.img /\ e.mtime = key.mtime)}
    \cup {[img |-> key.img, mtime |-> key.mtime, h |-> h]}

\* The hash of one file: the cached value of its (path, mtime) key, or a
\* newly computed one.
HashOf(cache, img, d) ==
    IF InHashCache(cache, CacheKey(img, d))
    THEN Lookup(cache, CacheKey(img, d))
    ELSE ComputeHash(img, d)

\* save_hash_cache
SaveHashCache(cache) == SetFile(cache)

\* Lines 522-540: one iteration of the hashing loop (i counts from 0).
\* if i > 0 and i % 100 == 0 and hash_cache_updated, i the index of the
\* image just handled.
FlushNever(k, updated) == FALSE

FlushDue(k, updated) == k > 0 /\ k % BlockSize = 0 /\ updated

HashStep ==
    /\ pc = "hash"
    /\ i < Len(image_files)
    /\ LET img_path == image_files[i + 1]
           cache_key == CacheKey(img_path, disk)
           hit == InHashCache(hash_cache, cache_key)
           h == HashOf(hash_cache, img_path, disk)
           stored == ~hit /\ h # NoHash
           updated == hash_cache_updated \/ stored
           flush == FlushDue(i, updated)
       IN  IF flush /\ Denied("write_hash")
           THEN /\ ExitRun
                /\ UNCHANGED hashFile
           ELSE /\ hash_cache' = IF stored THEN Store(hash_cache, cache_key, h)
                                 ELSE hash_cache
                /\ hashes' = IF h # NoHash
                             THEN Append(hashes, [img |-> img_path, h |-> h])
                             ELSE hashes
                /\ hashFile' = IF flush THEN SaveHashCache(hash_cache') ELSE hashFile
                /\ hash_cache_updated' = IF flush THEN FALSE ELSE updated
                /\ hist' = [hist EXCEPT
                              !.computed = IF hit THEN @ ELSE @ \cup {img_path},
                              !.hashWritten = IF flush THEN @ \cup hash_cache' ELSE @]
                /\ i' = i + 1
                /\ UNCHANGED <<no_gui, image_files, image_sources, groups, visited,
                               cached_files, ungrouped_hashes, reviewed_cache,
                               deleted_cache, idx, shown, result, action_taken, j, pc>>
    /\ UNCHANGED <<disk, cwdIsDir, groupsFile, dirReviewedFile, dirDeletedFile,
                   cwdReviewedFile, cwdDeletedFile, deletedLog, run, envOps>>
    /\ UNCHANGED given
    /\ UNCHANGED fallback

\* ungrouped_imgs = [img for img in image_files if img not in grouped_imgs]
UngroupedImgs(files, gs) == {img \in Range(files) : img \notin AllGroupFiles(gs)}

\* Lines 541-560: the last flush of the hash cache, and the images the
\* grouping pass is to look at.
\* save_hash_cache exits when the write is refused.
EndHashing ==
    /\ pc = "hash"
    /\ i = Len(image_files)
    /\ IF hash_cache_updated /\ Denied("write_hash")
       THEN /\ ExitRun
            /\ UNCHANGED hashFile
       ELSE /\ hashFile' = IF hash_cache_updated THEN SaveHashCache(hash_cache)
                           ELSE hashFile
            /\ hist' = [hist EXCEPT
                  !.hashWritten = IF hash_cache_updated THEN @ \cup hash_cache ELSE @,
                  !.groupsCur = IF Cardinality(UngroupedImgs(image_files, groups)) > 1
                                THEN @ ELSE {GroupImgs(groups[k]) : k \in 1..Len(groups)},
                  !.groupedCur = ~(Cardinality(UngroupedImgs(image_files, groups)) > 1),
                  !.groupStart = groups]
            /\ IF Cardinality(UngroupedImgs(image_files, groups)) > 1
               THEN /\ ungrouped_hashes' =
                          FilterSeq(hashes, UngroupedImgs(image_files, groups))
                    /\ i' = 0
                    /\ pc' = "group"
               ELSE /\ ungrouped_hashes' = <<>>
                    /\ i' = 0
                    /\ pc' = "review_load"
            /\ UNCHANGED <<no_gui, image_files, image_sources, groups, visited,
                           cached_files, hash_cache, hash_cache_updated, hashes,
                           reviewed_cache, deleted_cache, idx, shown, result,
                           action_taken, j>>
    /\ UNCHANGED <<disk, cwdIsDir, groupsFile, dirReviewedFile, dirDeletedFile,
                   cwdReviewedFile, cwdDeletedFile, deletedLog, run, envOps>>
    /\ UNCHANGED given
    /\ UNCHANGED fallback


\* ------------------------------------------------------ the grouper
RECURSIVE Matches(_, _, _)
\* The members hash_to_images[h_str] adds to the group of seed img1: the
\* other ungrouped images of the same hash string that are not visited.
Matches(s, img1, v) ==
    IF s = <<>> THEN <<>>
    ELSE (IF HashStr(Head(s).h) = HashStr(img1.h) /\ Head(s).img \notin v
             /\ Head(s).img # img1.img
          THEN <<Head(s)>> ELSE <<>>) \o Matches(Tail(s), img1, v)

\* The seed and its first match only: what the loop would do were it to stop
\* at the first equal hash.
FormGroupPair(s, img1, v) ==
    <<img1>> \o (IF Matches(s, img1, v) = <<>> THEN <<>> ELSE <<Head(Matches(s, img1, v))>>)

\* group = [(img1, hash1)] and every match of it
FormGroup(s, img1, v) == <<img1>> \o Matches(s, img1, v)

RegroupedFrom(gs, group) == <<group>>

MarkVisitedSeedOnly(v, group) == v \cup {group[1].img}

\* visited.add(img2) for every match, visited.add(img) for every member
MarkVisited(v, group) == v \cup GroupImgs(group)

\* groups.append(group)
AppendGroup(gs, group) == Append(gs, group)

\* Lines 561-577: one iteration of the grouping loop.  A visited seed is
\* skipped (continue: nothing is written); any other seed ends with the
\* write of (groups, visited) to the group cache, which nothing guards: a
\* refused write raises out of main().
GroupStep ==
    /\ pc = "group"
    /\ i < Len(ungrouped_hashes)
    /\ LET img1 == ungrouped_hashes[i + 1]
           group == FormGroup(ungrouped_hashes, img1, visited)
       IN  IF img1.img \in visited
           THEN /\ i' = i + 1
                /\ UNCHANGED <<groups, visited, groupsFile, hist, pc, no_gui,
                               image_files, image_sources, cached_files, hash_cache,
                               hash_cache_updated, hashes, ungrouped_hashes,
                               reviewed_cache, deleted_cache, idx, shown, result,
                               action_taken, j>>
           ELSE IF Denied("write_groups")
                THEN /\ ExitRun
                     /\ UNCHANGED groupsFile
                ELSE /\ groups' = IF Len(group) > 1 THEN AppendGroup(groups, group)
                                  ELSE groups
                     /\ visited' = IF Len(group) > 1 THEN MarkVisited(visited, group)
                                   ELSE visited
                     /\ groupsFile' = GroupsData(groups', visited')
                     /\ hist' = [hist EXCEPT
                                   !.persisted = GroupsData(groups', visited')]
                     /\ i' = i + 1
                     /\ UNCHANGED <<pc, no_gui, image_files, image_sources,
                                    cached_files, hash_cache, hash_cache_updated, hashes,
                                    ungrouped_hashes, reviewed_cache, deleted_cache, idx,
                                    shown, result, action_taken, j>>
    /\ UNCHANGED <<disk, cwdIsDir, hashFile, dirReviewedFile, dirDeletedFile,
                   cwdReviewedFile, cwdDeletedFile, deletedLog, run, envOps>>
    /\ UNCHANGED given
    /\ UNCHANGED fallback

\* Line 578: the grouping loop is over.
EndGrouping ==
    /\ pc = "group"
    /\ i = Len(ungrouped_hashes)
    /\ pc' = "review_load"
    /\ i' = 0
    /\ hist' = [hist EXCEPT !.groupsCur = {GroupImgs(groups[k]) : k \in 1..Len(groups)},
                            !.groupedCur = TRUE]
    /\ UNCHANGED <<persistent, no_gui, image_files, image_sources, groups, visited,
                   cached_files, hash_cache, hash_cache_updated, hashes, ungrouped_hashes,
                   reviewed_cache, deleted_cache, idx, shown, result, action_taken, j,
                   run, envOps>>
    /\ UNCHANGED given
    /\ UNCHANGED fallback

\* ------------------------------------------- reviewed and deleted caches
\* REVIEWED_CACHE and DELETED_CACHE are relative names: files of the working
\* directory, which are the directory's own when the program runs there.
ReviewedFile == IF cwdIsDir THEN dirReviewedFile ELSE cwdReviewedFile

DeletedFile == IF cwdIsDir THEN dirDeletedFile ELSE cwdDeletedFile

\* load_pickle_cache: set() when there is no file, else what unpickles: the
\* saved set, or the dict of the sentinel.
LoadPickleCache(f) ==
    CASE f.kind = "data" -> [kind |-> "set", items |-> f.items]
      [] f.kind = "sentinel" -> [kind |-> "dict", items |-> {}]
      [] OTHER -> NoCache

\* save_pickle_cache: pickle.dump of the object as it is.
SavePickleCache(c) == IF c.kind = "set" THEN SetFile(c.items) ELSE SentinelFile

\* Lines 581-585
BeginReview ==
    /\ pc = "review_load"
    /\ reviewed_cache' = LoadPickleCache(ReviewedFile)
    /\ deleted_cache' = LoadPickleCache(DeletedFile)
    /\ idx' = 0
    /\ pc' = "review"
    /\ UNCHANGED <<persistent, no_gui, image_files, image_sources, groups, visited,
                   cached_files, hash_cache, hash_cache_updated, hashes, i,
                   ungrouped_hashes, shown, result, action_taken, j, run, envOps, hist>>
    /\ UNCHANGED given
    /\ UNCHANGED fallback

\* group_id = tuple(sorted(img for img, _ in group))
GroupId(g) == SetToSortedSeq(GroupImgs(g))

\* save_pickle_cache(REVIEWED_CACHE, ...): the file of the working directory,
\* or its fallback when the write is refused.
WriteReviewed(f) ==
    IF Denied("write_pickle")
    THEN /\ UNCHANGED <<dirReviewedFile, cwdReviewedFile>>
         /\ fallback' = SavedToFallback(fallback, "reviewed")
    ELSE /\ IF cwdIsDir THEN dirReviewedFile' = f /\ UNCHANGED cwdReviewedFile
            ELSE cwdReviewedFile' = f /\ UNCHANGED dirReviewedFile
         /\ UNCHANGED fallback

\* save_pickle_cache(DELETED_CACHE, ...)
WriteDeleted(f) ==
    IF Denied("write_pickle")
    THEN /\ UNCHANGED <<dirDeletedFile, cwdDeletedFile>>
         /\ fallback' = SavedToFallback(fallback, "deleted")
    ELSE /\ IF cwdIsDir THEN dirDeletedFile' = f /\ UNCHANGED cwdDeletedFile
            ELSE cwdDeletedFile' = f /\ UNCHANGED dirDeletedFile
         /\ UNCHANGED fallback

\* set.add(x); a dict has no add, and the call raises AttributeError.
CanAdd(c) == c.kind = "set"

CacheAdd(c, x) == [c EXCEPT !.items = @ \cup {x}]

\* ------------------------------------------------ the review loop
\* Lines 586-589: a group whose identity is in reviewed_cache is passed over.
ReviewSkip ==
    /\ pc = "review"
    /\ idx < Len(groups)
    /\ GroupId(groups[idx + 1]) \in reviewed_cache.items
    /\ idx' = idx + 1
    /\ UNCHANGED <<persistent, no_gui, image_files, image_sources, groups, visited,
                   cached_files, hash_cache, hash_cache_updated, hashes, i,
                   ungrouped_hashes, reviewed_cache, deleted_cache, shown, result,
                   action_taken, j, pc, run, envOps, hist>>
    /\ UNCHANGED given
    /\ UNCHANGED fallback

\* result = {'action': 'keep_one', 'target': group[0][0]}
NoGuiResult(group) == [action |-> "keep_one", target |-> group[1].img]

\* Lines 591-595: without a window the first member of the group is kept,
\* and the group is recorded as reviewed.  reviewed_cache.add raises when
\* the cache is no set, and the run ends there.
ReviewNoGui ==
    /\ pc = "review"
    /\ idx < Len(groups)
    /\ GroupId(groups[idx + 1]) \notin reviewed_cache.items
    /\ no_gui
    /\ IF CanAdd(reviewed_cache)
       THEN /\ result' = NoGuiResult(groups[idx + 1])
            /\ reviewed_cache' = CacheAdd(reviewed_cache, GroupId(groups[idx + 1]))
            /\ WriteReviewed(SavePickleCache(reviewed_cache'))
            /\ pc' = "apply"
            /\ hist' = [hist EXCEPT !.recorded = @ \cup {GroupId(groups[idx + 1])}]
            /\ UNCHANGED <<no_gui, image_files, image_sources, groups, visited,
                           cached_files, hash_cache, hash_cache_updated, hashes, i,
                           ungrouped_hashes, deleted_cache, idx, shown, action_taken, j>>
       ELSE /\ pc' = "idle"
            /\ LocalReset
            /\ hist' = AbortHist(hist)
            /\ UNCHANGED <<dirReviewedFile, cwdReviewedFile, fallback>>
    /\ UNCHANGED <<disk, cwdIsDir, groupsFile, hashFile, dirDeletedFile, cwdDeletedFile,
                   deletedLog, run, envOps>>
    /\ UNCHANGED given

\* get_resolution(img_path)
GetResolution(img, d) == ContentResolution(d[img].content)

\* Text is a sequence of characters.
\* sub in s
Contains(s, sub) ==
    \E k \in 0..(Len(s) - Len(sub)) : SubSeq(s, k + 1, k + Len(sub)) = sub

Digits == {"0", "1", "2", "3", "4", "5", "6", "7", "8", "9"}

\* The pattern pat (characters, "d" for \d) matches s at position k.
MatchAt(s, k, pat) ==
    /\ k + Len(pat) - 1 <= Len(s)
    /\ \A m \in 1..Len(pat) :
          IF pat[m] = "d" THEN s[k + m - 1] \in Digits ELSE s[k + m - 1] = pat[m]

\* re.search(pat, s)
Search(pat, s) == \E k \in 1..Len(s) : MatchAt(s, k, pat)

\* The value of the first EXIF date tag of the image, in the format of the
\* EXIF standard, 'YYYY:MM:DD HH:MM:SS'; <<>> when the image has none.
ContentExifDate(c) ==
    IF c = 5
    THEN <<"2", "0", "2", "3", ":", "1", "1", ":", "0", "5", " ",
           "1", "0", ":", "0", "0", ":", "0", "0">>
    ELSE <<>>

\* os.path.basename(img_path): file "c" is named after its day, 20231105c.
FileName(b) ==
    IF b = "c" THEN <<"2", "0", "2", "3", "1", "1", "0", "5", "c">> ELSE <<b>>

\* re.search(r'(2023[-]?11[-]?\d{2}|202311\d{2}|11[-]?2023|112023)', fname)
NameMatchesNov2023(b) ==
    \/ Search(<<"2", "0", "2", "3", "1", "1", "d", "d">>, FileName(b))
    \/ Search(<<"2", "0", "2", "3", "-", "1", "1", "d", "d">>, FileName(b))
    \/ Search(<<"2", "0", "2", "3", "1", "1", "-", "d", "d">>, FileName(b))
    \/ Search(<<"2", "0", "2", "3", "-", "1", "1", "-", "d", "d">>, FileName(b))
    \/ Search(<<"1", "1", "2", "0", "2", "3">>, FileName(b))
    \/ Search(<<"1", "1", "-", "2", "0", "2", "3">>, FileName(b))

\* get_date(img_path): the EXIF date when there is one, else '2023-11' for a
\* file name that matches, else ''.
GetDate(img, d) ==
    IF ContentExifDate(d[img].content) # <<>> THEN ContentExifDate(d[img].content)
    ELSE IF NameMatchesNov2023(img.base) THEN <<"2", "0", "2", "3", "-", "1", "1">>
         ELSE <<>>

\* '2023-11' in date or '202311' in date or '11-2023' in date or '112023' in date
IsNov2023(date) ==
    \/ Contains(date, <<"2", "0", "2", "3", "-", "1", "1">>)
    \/ Contains(date, <<"2", "0", "2", "3", "1", "1">>)
    \/ Contains(date, <<"1", "1", "-", "2", "0", "2", "3">>)
    \/ Contains(date, <<"1", "1", "2", "0", "2", "3">>)

RECURSIVE InsertByResolution(_, _, _)
\* x put behind every member of the sorted s whose resolution is not lower.
InsertByResolution(s, x, d) ==
    IF s = <<>> THEN <<x>>
    ELSE IF GetResolution(Head(s).img, d) >= GetResolution(x.img, d)
         THEN <<Head(s)>> \o InsertByResolution(Tail(s), x, d)
         ELSE <<x>> \o s

RECURSIVE SortByResolution(_, _)
\* sorted(group, key=get_resolution, reverse=True): stable, highest first.
SortByResolution(g, d) ==
    IF g = <<>> THEN <<>>
    ELSE InsertByResolution(SortByResolution(SubSeq(g, 1, Len(g) - 1), d), g[Len(g)], d)

\* Lines 200-218: the left-to-right order of the window.
OrderGroup(g, d) ==
    IF Len(g) = 2
    THEN LET res0 == GetResolution(g[1].img, d)
             res1 == GetResolution(g[2].img, d)
             is_nov2023_0 == IsNov2023(GetDate(g[1].img, d))
             is_nov2023_1 == IsNov2023(GetDate(g[2].img, d))
         IN  IF is_nov2023_0 /\ res0 <= res1 THEN <<g[2], g[1]>>
             ELSE IF is_nov2023_1 /\ res1 <= res0 THEN <<g[1], g[2]>>
             ELSE SortByResolution(g, d)
    ELSE SortByResolution(g, d)

\* Line 597, lines 172-280: the window of the group opens.
ReviewShow ==
    /\ pc = "review"
    /\ idx < Len(groups)
    /\ GroupId(groups[idx + 1]) \notin reviewed_cache.items
    /\ ~no_gui
    /\ shown' = OrderGroup(groups[idx + 1], disk)
    /\ result' = NoResult
    /\ action_taken' = FALSE
    /\ pc' = "show"
    /\ hist' = [hist EXCEPT !.presented = @ \cup {GroupId(groups[idx + 1])}]
    /\ UNCHANGED <<persistent, no_gui, image_files, image_sources, groups, visited,
                   cached_files, hash_cache, hash_cache_updated, hashes, i,
                   ungrouped_hashes, reviewed_cache, deleted_cache, idx, j, run, envOps>>
    /\ UNCHANGED given
    /\ UNCHANGED fallback

\* if not action_taken[0]: the guard of every callback.
PendingAlways(taken) == TRUE

Pending(taken) == ~taken

\* make_keep_callback(k - 1): the callback of the k-th image from the left.
make_keep_callback(k) ==
    IF Pending(action_taken)
    THEN /\ result' = [action |-> "keep_one", target |-> shown[k].img]
         /\ action_taken' = TRUE
    ELSE UNCHANGED <<result, action_taken>>

delete_all_callback ==
    IF Pending(action_taken)
    THEN /\ result' = [action |-> "delete_all", target |-> NoPath]
         /\ action_taken' = TRUE
    ELSE UNCHANGED <<result, action_taken>>

\* What no callback of the window touches.
WindowFrame ==
    /\ UNCHANGED <<persistent, no_gui, image_files, image_sources, groups, visited,
                   cached_files, hash_cache, hash_cache_updated, hashes, i,
                   ungrouped_hashes, reviewed_cache, deleted_cache, idx, shown, j, pc,
                   run, envOps, hist>>
    /\ UNCHANGED given
    /\ UNCHANGED fallback

\* A click on the Keep button under the k-th image.
KeepCallback(k) ==
    /\ pc = "show"
    /\ k \in 1..Len(shown)
    /\ make_keep_callback(k)
    /\ WindowFrame

\* A click on the Delete All button.
DeleteAllCallback ==
    /\ pc = "show"
    /\ delete_all_callback
    /\ WindowFrame

\* The keys a person may press; "up" stands for every key without a binding.
Keys == {"enter", "return", "left", "right", "down", "up"}

\* on_key(event)
OnKey(key) ==
    /\ pc = "show"
    /\ CASE key \in {"enter", "return", "left"} -> make_keep_callback(1)
         [] key = "right" -> make_keep_callback(Len(shown))
         [] key = "down" -> delete_all_callback
         [] OTHER -> UNCHANGED <<result, action_taken>>
    /\ WindowFrame

\* if isinstance(auto, int) and auto > 0: the timer is created and started.
TimerArmedNever(a) == FALSE

TimerArmed(a) == a > 0

\* The timer fires (it fires every auto seconds until it is stopped, after
\* plt.show() has returned): auto_approve.
AutoApprove ==
    /\ pc = "show"
    /\ TimerArmed(auto)
    /\ IF ~action_taken THEN make_keep_callback(1)
       ELSE UNCHANGED <<result, action_taken>>
    /\ WindowFrame

\* Lines 280-288: plt.show() returns (a callback closed the window, or the
\* user did); the group is recorded as reviewed and the result returned.
ShowReturn ==
    /\ pc = "show"
    /\ IF CanAdd(reviewed_cache)
       THEN /\ reviewed_cache' = CacheAdd(reviewed_cache, GroupId(groups[idx + 1]))
            /\ WriteReviewed(SavePickleCache(reviewed_cache'))
            /\ pc' = "apply"
            /\ shown' = <<>>
            /\ action_taken' = FALSE
            /\ hist' = [hist EXCEPT !.recorded = @ \cup {GroupId(groups[idx + 1])}]
            /\ UNCHANGED <<no_gui, image_files, image_sources, groups, visited,
                           cached_files, hash_cache, hash_cache_updated, hashes, i,
                           ungrouped_hashes, deleted_cache, idx, result, j>>
       ELSE /\ pc' = "idle"
            /\ LocalReset
            /\ hist' = AbortHist(hist)
            /\ UNCHANGED <<dirReviewedFile, cwdReviewedFile, fallback>>
    /\ UNCHANGED <<disk, cwdIsDir, groupsFile, hashFile, dirDeletedFile, cwdDeletedFile,
                   deletedLog, run, envOps>>
    /\ UNCHANGED given


\* ------------------------------------------------- move_to_primary
Exists(d, q) == q \in DOMAIN d /\ Present(d, q)

\* dest_dir / src_path.name
DestPath(img) == [dir |-> "P", base |-> img.base, n |-> 0]

\* dest_dir / f"{base}_imported_{k}{ext}"
Candidate(img, k) == [dir |-> "P", base |-> img.base, n |-> k]

\* The path the file is moved to: the name itself when it is free, else the
\* first free candidate of range(1, 10000), else (none free) the name itself.
MoveDest(img, d) ==
    IF ~Exists(d, DestPath(img)) THEN DestPath(img)
    ELSE IF \E k \in 1..(SuffixLimit - 1) : ~Exists(d, Candidate(img, k))
         THEN Candidate(img, CHOOSE k \in 1..(SuffixLimit - 1) :
                  /\ ~Exists(d, Candidate(img, k))
                  /\ \A m \in 1..(k - 1) : Exists(d, Candidate(img, m)))
         ELSE DestPath(img)

\* shutil.move(src, dest)
MoveFile(d, src, dest) ==
    [d EXCEPT ![dest] = d[src], ![src] = [content |-> NoFile, mtime |-> 0]]

\* move_to_primary(img_path, dest_directory): the disk afterwards.  A file
\* that is already at its destination stays.
MoveToPrimary(img, d) ==
    IF img = DestPath(img) THEN d ELSE MoveFile(d, img, MoveDest(img, d))

\* ... and the path it returns.
MovedPath(img, d) == IF img = DestPath(img) THEN img ELSE MoveDest(img, d)

\* ------------------------------------------- applying the decision
\* Lines 598-607 and the dispatch on result['action']: a kept image of the
\* import source is moved into the primary directory first.
\* The kept image of the import tree is moved first; nothing guards that
\* call (line 602), so a refused move raises out of main().
MoveRefused(res, sources) ==
    res.action = "keep_one" /\ res.target \in sources /\ Denied("move")

ApplyDecision ==
    /\ pc = "apply"
    /\ IF MoveRefused(result, image_sources)
       THEN /\ ExitRun
            /\ UNCHANGED disk
       ELSE /\ hist' = [hist EXCEPT !.applied = @ \cup {GroupId(groups[idx + 1])},
                                    !.chosen = result.target,
                                    !.chosenFile = IF result.action = "keep_one"
                                                   THEN disk[result.target] ELSE @]
            /\ CASE result.action = "keep_one" ->
                      /\ IF result.target \in image_sources
                         THEN /\ disk' = MoveToPrimary(result.target, disk)
                              /\ result' = [result EXCEPT
                                              !.target = MovedPath(result.target, disk)]
                              /\ image_sources' = image_sources \ {result.target}
                         ELSE UNCHANGED <<disk, result, image_sources>>
                      /\ j' = 0
                      /\ pc' = "delete"
                      /\ idx' = idx
                 [] result.action = "delete_all" ->
                      /\ j' = 0
                      /\ pc' = "delete"
                      /\ idx' = idx
                      /\ UNCHANGED <<disk, result, image_sources>>
                 [] OTHER ->
                      /\ idx' = idx + 1
                      /\ pc' = "review"
                      /\ result' = NoResult
                      /\ UNCHANGED <<disk, image_sources, j>>
            /\ UNCHANGED <<no_gui, image_files, groups, visited, cached_files,
                           hash_cache, hash_cache_updated, hashes, i, ungrouped_hashes,
                           reviewed_cache, deleted_cache, shown, action_taken>>
    /\ UNCHANGED <<cwdIsDir, groupsFile, hashFile, dirReviewedFile, dirDeletedFile,
                   cwdReviewedFile, cwdDeletedFile, deletedLog, run, envOps>>
    /\ UNCHANGED given
    /\ UNCHANGED fallback

\* os.remove(img_path)
RemoveFile(d, img) == [d EXCEPT ![img] = [content |-> NoFile, mtime |-> 0]]

\* No image passed over: what the loop would do without the comparison.
IsKeptNever(res, img_path) == FALSE

\* if img_path != result['target'] (keep_one); delete_all passes nothing over.
IsKept(res, img_path) == res.action = "keep_one" /\ img_path = res.target

\* deleted_cache.add(img_path)
RecordDeleted(c, img_path) == CacheAdd(c, img_path)

\* The log left as it is: what the loop would do without the write.
LogAppendForgotten(log, img_path) == log

\* dlog.write(f"{img_path}\n")
LogAppend(log, img_path) == Append(log, img_path)

\* Lines 608-620 and 624-635: one member of the group.  The kept image is
\* passed over; os.remove of any other member succeeds (ok) or raises, for a
\* file that is gone or one the system refuses to remove; after a removal
\* the path goes to deleted_cache (which raises for a dict) and to the log.
DeleteStep(ok) ==
    /\ pc = "delete"
    /\ j < Len(groups[idx + 1])
    /\ LET img_path == groups[idx + 1][j + 1].img
           kept == IsKept(result, img_path)
       IN  /\ ok => (~kept /\ Present(disk, img_path))
           /\ IF ok
              THEN /\ disk' = RemoveFile(disk, img_path)
                   /\ IF CanAdd(deleted_cache)
                      THEN /\ deleted_cache' = RecordDeleted(deleted_cache, img_path)
                           /\ deletedLog' = LogAppend(deletedLog, img_path)
                           /\ hist' = [hist EXCEPT !.removed = @ \cup {img_path}]
                      ELSE /\ UNCHANGED <<deleted_cache, deletedLog>>
                           /\ hist' = [hist EXCEPT !.removed = @ \cup {img_path}]
              ELSE /\ UNCHANGED <<disk, deleted_cache, deletedLog>>
                   /\ hist' = [hist EXCEPT !.fsFailed =
                                 @ \/ (~kept /\ Present(disk, img_path))]
    /\ j' = j + 1
    /\ UNCHANGED <<cwdIsDir, groupsFile, hashFile, dirReviewedFile, dirDeletedFile,
                   cwdReviewedFile, cwdDeletedFile, no_gui, image_files, image_sources,
                   groups, visited, cached_files, hash_cache, hash_cache_updated, hashes,
                   i, ungrouped_hashes, reviewed_cache, idx, shown, result, action_taken,
                   pc, run, envOps>>
    /\ UNCHANGED given
    /\ UNCHANGED fallback

\* Lines 621 and 636: save_pickle_cache(DELETED_CACHE, deleted_cache), and
\* on to the next group.
ApplyEnd ==
    /\ pc = "delete"
    /\ j = Len(groups[idx + 1])
    /\ WriteDeleted(SavePickleCache(deleted_cache))
    /\ idx' = idx + 1
    /\ j' = 0
    /\ result' = NoResult
    /\ pc' = "review"
    /\ UNCHANGED <<disk, cwdIsDir, groupsFile, hashFile, dirReviewedFile,
                   cwdReviewedFile, deletedLog, no_gui, image_files, image_sources,
                   groups, visited, cached_files, hash_cache, hash_cache_updated, hashes,
                   i, ungrouped_hashes, reviewed_cache, deleted_cache, shown,
                   action_taken, run, envOps, hist>>
    /\ UNCHANGED given

\* unique_imports
UniqueImportsNone(files, sources, deleted) == <<>>

UniqueImports(files, sources, deleted) ==
    FilterSeq([k \in 1..Len(files) |-> [img |-> files[k]]], sources \ deleted.items)

RECURSIVE MoveAll(_, _)
\* for img in unique_imports: move_to_primary(img, args.directory); the
\* move of a file that is gone raises, and the loop ends there.
MoveAll(s, d) ==
    IF s = <<>> THEN d
    ELSE IF ~Present(d, Head(s).img) THEN d
         ELSE MoveAll(Tail(s), MoveToPrimary(Head(s).img, d))

\* Lines 641-646: the imports no decision deleted are moved into the primary
\* directory, and the run ends.
\* Lines 641-646: the end of main().  Nothing guards the moves, so a refused
\* move raises out of main() at the first unique import.
FinalMove ==
    /\ pc = "review"
    /\ idx = Len(groups)
    /\ LET unique_imports == UniqueImports(image_files, image_sources, deleted_cache)
       IN  IF unique_imports # <<>> /\ Denied("move")
           THEN /\ UNCHANGED disk
                /\ hist' = AbortHist(hist)
           ELSE /\ disk' = MoveAll(unique_imports, disk)
                /\ hist' = [EndHist(hist) EXCEPT !.finalMoved = GroupImgs(unique_imports)]
    /\ pc' = "idle"
    /\ LocalReset
    /\ UNCHANGED <<cwdIsDir, groupsFile, hashFile, dirReviewedFile, dirDeletedFile,
                   cwdReviewedFile, cwdDeletedFile, deletedLog, run, envOps>>
    /\ UNCHANGED given
    /\ UNCHANGED fallback

\* ------------------------------------------------------------ Next
Next ==
    \/ \E p \in InitialPaths, c \in ReadableContents : EnvAdd(p, c)
    \/ \E p \in Paths : EnvRemove(p)
    \/ \E p \in Paths : EnvTouch(p, EditedContent(disk[p].content))
    \/ \E ng \in BOOLEAN : StartRun(ng)
    \/ Guard
    \/ Scan
    \/ LoadGroups
    \/ Invalidate
    \/ HashStep
    \/ EndHashing
    \/ GroupStep
    \/ EndGrouping
    \/ BeginReview
    \/ ReviewSkip
    \/ ReviewNoGui
    \/ ReviewShow
    \/ \E k \in 1..3 : KeepCallback(k)
    \/ DeleteAllCallback
    \/ \E key \in Keys : OnKey(key)
    \/ ShowReturn
    \/ ApplyDecision
    \/ \E ok \in BOOLEAN : DeleteStep(ok)
    \/ ApplyEnd
    \/ FinalMove

Spec == Init /\ [][Next]_vars

\* ------------------------------------------- one run, and what may fail
\* The sets of refused operations a run is given: nothing, one of the tests
\* of the guard (with the removal that follows refused too, or not), one of
\* the writes, the fallback write with it, the moves.
DeniedSets ==
    {{}, {"test_groups"}, {"test_groups", "unlink"}, {"test_hash"},
     {"test_hash", "unlink"}, {"write_hash"}, {"write_groups"}, {"write_pickle"},
     {"write_pickle", "write_fallback"}, {"move"}}

\* The files of one run: a, 20231105c of the primary directory, a of the
\* import directory; an image with EXIF data only under the dated name or
\* in the import directory.
Disks2 ==
    {d \in [Paths -> [content : {NoFile, 1, 2, 5}, mtime : 0..1]] :
        \A p \in Paths :
           /\ (p.n # 0 \/ p.base = "b") => d[p].content = NoFile
           /\ (p.dir = "P" /\ p.base = "a") => d[p].content # 5
           /\ d[p].mtime = (IF d[p].content = NoFile THEN 0 ELSE 1)}

\* Before a run: no cache file, or the caches of an earlier run with a group
\* cache that a broken write has left impossible to unpickle.
Init2 ==
    /\ disk \in Disks2
    /\ cwdIsDir = FALSE
    /\ \E corrupt \in BOOLEAN :
          /\ groupsFile = (IF corrupt THEN CorruptGroups ELSE AbsentGroups)
          /\ hashFile = (IF corrupt THEN SetFile({}) ELSE AbsentFile)
    /\ dirReviewedFile = AbsentFile
    /\ dirDeletedFile = AbsentFile
    /\ cwdReviewedFile = AbsentFile
    /\ cwdDeletedFile = AbsentFile
    /\ deletedLog = <<>>
    /\ pc = "idle"
    /\ run = 0
    /\ envOps = 0
    /\ LocalInit
    /\ hist = NoHist
    /\ auto \in {0, AutoSeconds}
    /\ walk \in Walks
    /\ denied \in DeniedSets
    /\ fallback = {}

StartOnce(ng) == run = 0 /\ StartRun(ng)

Next2 ==
    \/ \E ng \in BOOLEAN : StartOnce(ng)
    \/ Guard
    \/ Scan
    \/ LoadGroups
    \/ Invalidate
    \/ HashStep
    \/ EndHashing
    \/ GroupStep
    \/ EndGrouping
    \/ BeginReview
    \/ ReviewNoGui
    \/ ReviewShow
    \/ \E k \in 1..3 : KeepCallback(k)
    \/ DeleteAllCallback
    \/ \E key \in Keys : OnKey(key)
    \/ AutoApprove
    \/ ShowReturn
    \/ ApplyDecision
    \/ \E ok \in BOOLEAN : DeleteStep(ok)
    \/ ApplyEnd
    \/ FinalMove

Spec2 == Init2 /\ [][Next2]_vars

\* ------------------------------------------ runs that may be killed
\* The process is killed (Ctrl-C, which no "except Exception" catches, a
\* closed terminal, a power cut): what main() held is gone, the files stay
\* as they are.
Interrupt ==
    /\ pc # "idle"
    /\ pc' = "idle"
    /\ LocalReset
    /\ hist' = [AbortHist(hist) EXCEPT
                  !.interrupted = pc,
                  !.interruptedGroup = IF pc \in {"apply", "delete"}
                                       THEN GroupId(groups[idx + 1]) ELSE <<>>]
    /\ UNCHANGED <<persistent, run, envOps>>
    /\ UNCHANGED given
    /\ UNCHANGED fallback

\* The files before the first run: the same picture (content 1) or another
\* one (content 3) under the names of the two directories.
DisksCrash ==
    {d \in [Paths -> [content : {NoFile, 1, 3}, mtime : 0..1]] :
        \A p \in Paths :
           /\ (p \notin InitialPaths) => d[p].content = NoFile
           /\ d[p].mtime = (IF d[p].content = NoFile THEN 0 ELSE 1)}

\* Before the first run: no cache file, the program started from another
\* directory than the target.
InitCrash ==
    /\ disk \in DisksCrash
    /\ cwdIsDir = FALSE
    /\ groupsFile = AbsentGroups
    /\ hashFile = AbsentFile
    /\ dirReviewedFile = AbsentFile
    /\ dirDeletedFile = AbsentFile
    /\ cwdReviewedFile = AbsentFile
    /\ cwdDeletedFile = AbsentFile
    /\ deletedLog = <<>>
    /\ pc = "idle"
    /\ run = 0
    /\ envOps = 0
    /\ LocalInit
    /\ hist = NoHist
    /\ auto = 0
    /\ walk = "asc"
    /\ denied = {}
    /\ fallback = {}

NextCrash ==
    \/ \E ng \in BOOLEAN : StartRun(ng)
    \/ Interrupt
    \/ Guard
    \/ Scan
    \/ LoadGroups
    \/ Invalidate
    \/ HashStep
    \/ EndHashing
    \/ GroupStep
    \/ EndGrouping
    \/ BeginReview
    \/ ReviewSkip
    \/ ReviewNoGui
    \/ ReviewShow
    \/ \E k \in 1..3 : KeepCallback(k)
    \/ DeleteAllCallback
    \/ ShowReturn
    \/ ApplyDecision
    \/ \E ok \in BOOLEAN : DeleteStep(ok)
    \/ ApplyEnd
    \/ FinalMove

SpecCrash == InitCrash /\ [][NextCrash]_vars

\* ------------------------------------- the hashing loop by numbers
\* The loop of lines 519-543 over a directory of up to MaxFiles files, of
\* which only the number counts: i is the index of the image at hand, each
\* image is a hit of the hash cache (or unreadable) or gets a new hash, and
\* the list may end after any image.
InitHashLoop ==
    /\ disk = [p \in Paths |-> [content |-> NoFile, mtime |-> 0]]
    /\ cwdIsDir = FALSE
    /\ groupsFile = AbsentGroups
    /\ hashFile = SetFile({})
    /\ dirReviewedFile = AbsentFile
    /\ dirDeletedFile = AbsentFile
    /\ cwdReviewedFile = AbsentFile
    /\ cwdDeletedFile = AbsentFile
    /\ deletedLog = <<>>
    /\ pc = "hash"
    /\ run = 1
    /\ envOps = 0
    /\ LocalInit
    /\ hist = NoHist
    /\ auto = 0
    /\ walk = "asc"
    /\ denied = {}
    /\ fallback = {}

\* What the loop by numbers leaves alone.
HashLoopFrame ==
    /\ UNCHANGED <<persistent, no_gui, image_files, image_sources, groups, visited,
                   cached_files, hash_cache, hashes, ungrouped_hashes, reviewed_cache,
                   deleted_cache, idx, shown, result, action_taken, j, run, envOps>>
    /\ UNCHANGED given
    /\ UNCHANGED fallback

\* Lines 528-536: the hash of the image at hand, looked up or computed.
HashLoopCompute(new) ==
    /\ pc = "hash"
    /\ i < MaxFiles
    /\ hash_cache_updated' = (hash_cache_updated \/ new)
    /\ hist' = [hist EXCEPT !.unwritten = IF new THEN @ + 1 ELSE @]
    /\ pc' = "hash_flush"
    /\ i' = i
    /\ HashLoopFrame

\* Lines 538-540: the flush of the block, and on to the next image.
HashLoopFlush ==
    /\ pc = "hash_flush"
    /\ IF FlushDue(i, hash_cache_updated)
       THEN /\ hash_cache_updated' = FALSE
            /\ hist' = [hist EXCEPT !.unwritten = 0]
       ELSE UNCHANGED <<hash_cache_updated, hist>>
    /\ i' = i + 1
    /\ pc' = "hash"
    /\ HashLoopFrame

\* Lines 541-543: the list is at its end.
HashLoopEnd ==
    /\ pc = "hash"
    /\ hist' = [hist EXCEPT !.unwritten = IF hash_cache_updated THEN 0 ELSE @]
    /\ pc' = "hashed"
    /\ UNCHANGED <<hash_cache_updated, i>>
    /\ HashLoopFrame

NextHashLoop ==
    \/ \E new \in BOOLEAN : HashLoopCompute(new)
    \/ HashLoopFlush
    \/ HashLoopEnd

SpecHashLoop == InitHashLoop /\ [][NextHashLoop]_vars

\* ---------------------------------------------- move_to_primary alone
\* The names a file called a may get in the primary directory.
NamesOfA == {[dir |-> "P", base |-> "a", n |-> m] : m \in 0..(SuffixLimit - 1)}

\* A primary directory in which the first k of these names are taken by
\* files of content 1, and an import directory with a file a of content c.
DiskTaken(k, c) ==
    [p \in Paths \cup NamesOfA |->
        IF p.dir = "P" /\ p.base = "a" /\ p.n < k THEN [content |-> 1, mtime |-> 1]
        ELSE IF p.dir = "I" /\ p.base = "a" THEN [content |-> c, mtime |-> 1]
        ELSE [content |-> NoFile, mtime |-> 0]]

InitMove ==
    /\ \E k \in (0..MaxTaken) \cup {SuffixLimit - 1, SuffixLimit}, c \in {2, 3} :
          disk = DiskTaken(k, c)
    /\ cwdIsDir = FALSE
    /\ groupsFile = AbsentGroups
    /\ hashFile = AbsentFile
    /\ dirReviewedFile = AbsentFile
    /\ dirDeletedFile = AbsentFile
    /\ cwdReviewedFile = AbsentFile
    /\ cwdDeletedFile = AbsentFile
    /\ deletedLog = <<>>
    /\ pc = "idle"
    /\ run = 0
    /\ envOps = 0
    /\ LocalInit
    /\ hist = NoHist
    /\ auto = 0
    /\ walk = "asc"
    /\ denied = {}
    /\ fallback = {}

\* move_to_primary(img, args.directory), once.
Relocate(img) ==
    /\ pc = "idle" /\ run = 0
    /\ img.dir = "I" /\ Present(disk, img)
    /\ disk' = MoveToPrimary(img, disk)
    /\ hist' = [hist EXCEPT !.returned = MovedPath(img, disk)]
    /\ run' = 1
    /\ UNCHANGED <<cwdIsDir, groupsFile, hashFile, dirReviewedFile, dirDeletedFile,
                   cwdReviewedFile, cwdDeletedFile, deletedLog, local, pc, envOps>>
    /\ UNCHANGED given
    /\ UNCHANGED fallback

NextMove == \E img \in Paths : Relocate(img)

SpecMove == InitMove /\ [][NextMove]_vars

\* ------------------------------------------- the load and prune alone
\* The hashes of the files of a directory, in the order of the scan.
HashesOf(d) ==
    LET files == WalkSeq({p \in Paths : Present(d, p)}, "asc")
    IN  [k \in 1..Len(files) |-> [img |-> files[k], h |-> ContentHash(d[files[k]].content)]]

RECURSIVE GroupingPass(_, _, _, _)
\* Lines 561-576 from the k-th seed on: the (groups, visited) that the last
\* step of the pass writes to the group cache.
GroupingPass(s, k, gs, v) ==
    IF k > Len(s) THEN GroupsData(gs, v)
    ELSE IF s[k].img \in v THEN GroupingPass(s, k + 1, gs, v)
    ELSE LET group == FormGroup(s, s[k], v)
         IN  IF Len(group) > 1
             THEN GroupingPass(s, k + 1, AppendGroup(gs, group), MarkVisited(v, group))
             ELSE GroupingPass(s, k + 1, gs, v)

\* The directory d without the files of R.
Without(d, R) ==
    [p \in Paths |-> IF p \in R THEN [content |-> NoFile, mtime |-> 0] ELSE d[p]]

\* A run at its load step, the scan done: the group cache holds what a
\* grouping pass over the files of an earlier day wrote, and some of these
\* files have been removed since.
InitPrune ==
    /\ \E d \in DisksCrash, R \in SUBSET InitialPaths :
          /\ disk = Without(d, R)
          /\ groupsFile = GroupingPass(HashesOf(d), 1, <<>>, {})
    /\ cwdIsDir = FALSE
    /\ hashFile = SetFile({})
    /\ dirReviewedFile = AbsentFile
    /\ dirDeletedFile = AbsentFile
    /\ cwdReviewedFile = AbsentFile
    /\ cwdDeletedFile = AbsentFile
    /\ deletedLog = <<>>
    /\ pc = "load"
    /\ run = 1
    /\ envOps = 0
    /\ auto = 0
    /\ walk = "asc"
    /\ denied = {}
    /\ fallback = {}
    /\ no_gui = FALSE
    /\ image_files = ScanFiles(disk)
    /\ image_sources = {p \in Paths : Present(disk, p) /\ p.dir = "I"}
    /\ groups = <<>>
    /\ visited = {}
    /\ cached_files = {}
    /\ hash_cache = {}
    /\ hash_cache_updated = FALSE
    /\ hashes = <<>>
    /\ i = 0
    /\ ungrouped_hashes = <<>>
    /\ reviewed_cache = NoCache
    /\ deleted_cache = NoCache
    /\ idx = 0
    /\ shown = <<>>
    /\ result = NoResult
    /\ action_taken = FALSE
    /\ j = 0
    /\ hist = NoHist

NextPrune ==
    \/ LoadGroups
    \/ Invalidate
    \/ HashStep
    \/ EndHashing
    \/ GroupStep
    \/ EndGrouping

SpecPrune == InitPrune /\ [][NextPrune]_vars

\* ------------------------------------- one run that nobody attends to
\* --auto is given, the window is left alone: no click, no key, and the
\* window closes only when a callback closes it.
InitAuto ==
    /\ Init2
    /\ auto = AutoSeconds
    /\ denied = {}

\* plt.close(fig) of the callback ends plt.show().
ClosedReturn == action_taken /\ ShowReturn

StartGui == StartOnce(FALSE)

NextAuto ==
    \/ StartGui
    \/ Guard
    \/ Scan
    \/ LoadGroups
    \/ Invalidate
    \/ HashStep
    \/ EndHashing
    \/ GroupStep
    \/ EndGrouping
    \/ BeginReview
    \/ ReviewShow
    \/ AutoApprove
    \/ ClosedReturn
    \/ ApplyDecision
    \/ \E ok \in BOOLEAN : DeleteStep(ok)
    \/ ApplyEnd
    \/ FinalMove

\* The event loop of the window runs the timer, and plt.show() returns once
\* the figure is closed.
SpecAuto ==
    /\ InitAuto
    /\ [][NextAuto]_vars
    /\ WF_vars(AutoApprove)
    /\ WF_vars(ClosedReturn)


\* =============================================================== claims
InReview == pc \in {"review_load", "review", "show", "apply", "delete"}

ShownOrApplied == hist.presented \cup hist.applied

\* C1: when two consecutive runs scan the same files (paths, modification
\* times, contents), the second run ends its grouping phase with the groups
\* of the first and neither shows nor decides a group the first run
\* recorded as reviewed.
C1_RerunIdempotent ==
    (run >= 2 /\ InReview /\ hist.groupedPrev /\ hist.scanCur = hist.scanPrev) =>
       /\ hist.groupedCur => hist.groupsCur = hist.groupsPrev
       /\ ShownOrApplied \cap hist.recordedPrev = {}

\* C2: once the load / prune / invalidate step is done, a scan that holds a
\* file of no loaded group leaves no group, no visited image and no group
\* cache file.
C2_NewFileDiscardsGroupCache ==
    (pc = "hash" /\ Range(image_files) \ cached_files # {}) =>
       (groups = <<>> /\ visited = {} /\ groupsFile.kind = "absent")

\* C2 witness: the previous run persisted groups, this run scans a file the
\* previous one did not, and hashing starts from nothing.
C2_Witness ==
    /\ pc = "hash" /\ run = 2
    /\ hist.persistedPrev.groups # <<>>
    /\ \E p \in Range(image_files) : p \notin {f.img : f \in hist.scanPrev}
    /\ groups = <<>> /\ visited = {}

\* C3: after the load and prune step, when a member of a group the previous
\* run persisted is no longer scanned, the run goes on with the persisted
\* groups and visited set pruned of the missing files, and has written them.
C3_PrunedStateContinues ==
    (pc = "invalidate" /\ run >= 2 /\ hist.persistedPrev.kind = "data"
       /\ AllGroupFiles(hist.persistedPrev.groups) \ Range(image_files) # {}) =>
       /\ groups = PruneGroups(hist.persistedPrev.groups, Range(image_files))
       /\ visited = PruneVisited(hist.persistedPrev.visited, Range(image_files))
       /\ groupsFile = GroupsData(groups, visited)

SameGroup(a, b) == \E k \in 1..Len(groups) : {a, b} \subseteq GroupImgs(groups[k])

C5_NoGuiKeepsHighestResolution ==
    (pc = "apply" /\ no_gui /\ result.action = "keep_one") =>
       result.target = SortByResolution(groups[idx + 1], disk)[1].img

\* C6: a group whose identity an earlier run recorded as reviewed is neither
\* shown nor decided in this run.
C6_ReviewedNeverPresentedAgain == ShownOrApplied \cap hist.recordedEarlier = {}

\* C7: while and after keep_one is applied the kept file exists, at the
\* chosen path or, for an import, at a path of the primary directory, and
\* when no removal was refused no other member is left at the end.
C7_KeepOneKeepsTarget ==
    (pc = "delete" /\ result.action = "keep_one") =>
       /\ disk[result.target] = hist.chosenFile
       /\ Present(disk, result.target)
       /\ IF hist.chosen.dir = "I" THEN result.target.dir = "P"
          ELSE result.target = hist.chosen
       /\ (j = Len(groups[idx + 1]) /\ ~hist.fsFailed) =>
             \A m \in (GroupImgs(groups[idx + 1]) \cup {hist.chosen}) \ {result.target} :
                ~Present(disk, m)

\* C7 witness: the import file was chosen, its name was taken, it was moved
\* to the first free candidate and every other member is gone.
C7_Witness ==
    /\ pc = "delete" /\ result.action = "keep_one"
    /\ j = Len(groups[idx + 1]) /\ ~hist.fsFailed
    /\ hist.chosen.dir = "I" /\ result.target.n = 1
    /\ Len(groups[idx + 1]) >= 3

RemovedInStep(p) == pc = "delete" /\ Present(disk, p) /\ ~Present(disk', p)

C9_HashCachedOrComputed ==
    /\ [][(pc = "hash" /\ i < Len(image_files) /\ i' = i + 1) =>
            LET img == image_files[i + 1]
                mt == disk[img].mtime
                cached == {e \in hash_cache : e.img = img /\ e.mtime = mt}
                fresh == ContentHash(disk[img].content)
            IN  IF cached # {}
                THEN /\ \E e \in cached : hashes' = Append(hashes, [img |-> img, h |-> e.h])
                     /\ hash_cache' = hash_cache
                ELSE IF fresh # NoHash
                     THEN /\ hashes' = Append(hashes, [img |-> img, h |-> fresh])
                          /\ hash_cache' = hash_cache \cup {[img |-> img, mtime |-> mt, h |-> fresh]}
                     ELSE /\ hashes' = hashes
                          /\ hash_cache' = hash_cache
         ]_vars
    /\ [](pc \in {"hash", "group", "review_load"} =>
            \A k \in 1..Len(hashes) : hashes[k].h = ContentHash(disk[hashes[k].img].content))

\* C9 witness: a file edited between the runs, whose old key the first run
\* wrote with another hash, is hashed again under its new key.
C9_Witness ==
    /\ pc = "hash" /\ run = 2
    /\ \E e \in hash_cache : \E w \in hist.hashWritten :
          w.img = e.img /\ w.mtime = 1 /\ e.mtime = 2 /\ w.h # e.h
          /\ e.img \in hist.computed

\* C10: when a run begins hashing, every entry a run ever wrote to the hash
\* cache file is in the hash cache it loaded.
C10_HashEntriesNeverRemoved ==
    (pc = "hash" /\ i = 0) => hist.hashWritten \subseteq hash_cache

\* C11: a group cache file that is there but does not unpickle does not end
\* the run: the load leaves groups and visited empty, and the run goes on
\* through the hashing, the grouping and the review.
C11_CorruptGroupCacheTolerated ==
    (hist.groupsAtStart = "corrupt" /\ denied = {} /\ ~cwdIsDir) =>
        /\ (pc \in {"invalidate", "hash"}) => (groups = <<>> /\ visited = {})
        /\ ~hist.aborted

\* C11 witness: the run that began with such a file shows a group of three.
C11_Witness ==
    /\ hist.groupsAtStart = "corrupt" /\ denied = {}
    /\ pc = "show" /\ Len(shown) = 3

\* ------------------------------------------------------------- C12
\* The cache file whose test the guard fails: the group cache when it is
\* there and its test is refused, else the hash cache when its test is.
GroupsTestFails == pc = "guard" /\ groupsFile.kind # "absent" /\ Denied("test_groups")

HashTestFails ==
    /\ pc = "guard" /\ ~GroupsTestFails
    /\ hashFile.kind # "absent" /\ Denied("test_hash")

\* The run ends in the guard: no image file is hashed, deleted or moved.
EndsBeforeImages ==
    /\ pc' = "idle" /\ hist'.aborted
    /\ disk' = disk /\ deletedLog' = deletedLog
    /\ hist'.computed = {} /\ hist'.removed = {} /\ hist'.scanPrev = {}

\* C12 as the specification states it: when the write/read test of the guard
\* fails for a cache file, that file is deleted and the run ends before any
\* image file is hashed, deleted or moved.
C12_FailedTestDeletesFile ==
    [][/\ GroupsTestFails => (groupsFile'.kind = "absent" /\ EndsBeforeImages)
       /\ HashTestFails => (hashFile'.kind = "absent" /\ EndsBeforeImages)]_vars

\* C12, amended: when the write/read test of the guard fails for a cache
\* file, the removal of that file is attempted, and the file is gone unless
\* the removal is refused too, in which case it stays as it was; either way
\* the run ends before any image file is hashed, deleted or moved.
C12_FailedTestEndsRun ==
    [][/\ GroupsTestFails =>
            /\ groupsFile' = (IF Denied("unlink") THEN groupsFile ELSE AbsentGroups)
            /\ EndsBeforeImages
       /\ HashTestFails =>
            /\ hashFile' = (IF Denied("unlink") THEN hashFile ELSE AbsentFile)
            /\ EndsBeforeImages]_vars

\* C12 witness: a run that the guard ended on the group cache, now removed,
\* with image files in the directory.
C12_Witness ==
    /\ pc = "idle" /\ run = 1 /\ hist.aborted
    /\ hist.groupsAtStart = "corrupt" /\ groupsFile.kind = "absent"
    /\ "test_groups" \in denied
    /\ \E p \in Paths : Present(disk, p)

\* ------------------------------------------------------------- C13
\* C13: while the window of a group is open, whatever the order of the
\* clicks on Keep and Delete All, the key presses and the firings of the
\* timer, the decision is assigned at most once: nothing is assigned before
\* the first trigger, and once action_taken is set every later trigger,
\* a late timer included, leaves the decision as it is.
C13_DecisionAssignedOnce ==
    [][(pc = "show" /\ pc' = "show") =>
          /\ ~action_taken => result = NoResult
          /\ action_taken => (action_taken' /\ result' = result)
          /\ (~action_taken /\ action_taken') => result' # NoResult]_vars

\* C13 witness: Delete All has been decided in a window of three images
\* whose timer is armed and whose buttons and keys are still there.
C13_Witness ==
    /\ pc = "show" /\ action_taken /\ result.action = "delete_all"
    /\ Len(shown) = 3 /\ TimerArmed(auto)
    /\ ENABLED AutoApprove /\ ENABLED KeepCallback(3) /\ ENABLED OnKey("right")

\* ------------------------------------------------------------- C14
\* keep_one of the leftmost candidate of the order displayed.
KeepLeftmost == [action |-> "keep_one", target |-> shown[1].img]

C15_UniqueImportsRelocated ==
    [][(pc = "review" /\ idx = Len(groups) /\ pc' = "idle" /\ ~hist'.aborted) =>
          \A p \in image_sources \ deleted_cache.items :
             /\ p \in Range(image_files)
             /\ ~Present(disk', p)
             /\ \E q \in Paths :
                   /\ q.dir = "P" /\ q.base = p.base
                   /\ ~Present(disk, q) /\ disk'[q] = disk[p]]_vars

\* C15 witness: a completed run has moved an import file whose name was
\* taken in the primary directory, so it is there under the first free name.
C15_Witness ==
    /\ pc = "idle" /\ run = 1 /\ ~hist.aborted
    /\ \E p \in hist.finalMoved :
          /\ ~Present(disk, p) /\ Present(disk, DestPath(p))
          /\ Present(disk, Candidate(p, 1))

\* ------------------------------------------------------------- C16
\* C16: a click on a Keep button keeps all the images of the group: while
\* the decision of the window (keep_one, assigned by the callback of the
\* button) is applied, no member of the group is deleted.
C16_KeepKeepsAllImages ==
    [][(pc = "delete" /\ ~no_gui /\ auto = 0 /\ result.action = "keep_one") =>
          \A p \in GroupImgs(groups[idx + 1]) : Present(disk, p) => Present(disk', p)]_vars

\* ------------------------------------------------------------- C17
\* The group g as the run would have formed it had the directories listed
\* their files in the order w: a group holds its members in scan order.
ListedBy(g, w) ==
    LET ws == WalkSeq(GroupImgs(g), w)
    IN  [k \in 1..Len(ws) |-> CHOOSE m \in Range(g) : m.img = ws[k]]

\* C17: the order of presentation depends on the resolutions and the date
\* and filename metadata alone: the window shows the members in the order
\* it would show them after any other listing of the same files.
C17_OrderFromMetadataAlone ==
    pc = "show" =>
        \A w \in Walks : OrderGroup(ListedBy(groups[idx + 1], w), disk) = shown

\* ------------------------------------------------------------- C18
\* The capture date of the EXIF data is of November 2023.
CapturedNov2023(c) ==
    /\ Len(ContentExifDate(c)) >= 7
    /\ SubSeq(ContentExifDate(c), 1, 7) = <<"2", "0", "2", "3", ":", "1", "1">>

\* The candidate carries the marker of the target month, through its
\* capture metadata or through its file name.
Marked(img) == CapturedNov2023(disk[img].content) \/ NameMatchesNov2023(img.base)

\* A marked candidate whose resolution does not exceed the other's.
Demoted(m, other) ==
    Marked(m.img) /\ GetResolution(m.img, disk) <= GetResolution(other.img, disk)

\* C18: in a group of two, a candidate that carries the marker and whose
\* resolution does not exceed the other's is shown last; when there is none,
\* the higher resolution is shown first.
C18_MarkedCandidateLast ==
    (pc = "show" /\ Len(shown) = 2) =>
        IF Demoted(shown[1], shown[2]) \/ Demoted(shown[2], shown[1])
        THEN Demoted(shown[2], shown[1])
        ELSE GetResolution(shown[1].img, disk) >= GetResolution(shown[2].img, disk)

\* ------------------------------------------------------------- C19
\* C19: a file that cannot be deleted or moved, while a decision is applied
\* or in the final relocation, does not end the run: the application of a
\* decision always goes on to the members of the group, and the run that
\* reaches the end of the review loop completes.
C19_FileFailureDoesNotAbort ==
    [][/\ pc = "apply" => pc' \in {"delete", "review"}
       /\ pc = "delete" => pc' \in {"delete", "review"}
       /\ (pc = "review" /\ idx = Len(groups) /\ pc' = "idle") => ~hist'.aborted]_vars

\* ------------------------------------------------------------- C20
\* The step writes the cache file of that name, and the write is refused.
RefusedWrite(name) ==
    CASE name = "hash" ->
           pc = "hash" /\ i = Len(image_files) /\ hash_cache_updated
           /\ Denied("write_hash")
      [] name = "groups" ->
           pc = "group" /\ i < Len(ungrouped_hashes)
           /\ ungrouped_hashes[i + 1].img \notin visited /\ Denied("write_groups")
      [] name = "reviewed" ->
           pc \in {"review", "show"} /\ pc' = "apply" /\ Denied("write_pickle")
      [] name = "deleted" ->
           pc = "delete" /\ j = Len(groups[idx + 1]) /\ Denied("write_pickle")

\* C20: a refused write of a cache file (hash, group, reviewed, deleted)
\* puts the content in the fallback file, and ends the run only when the
\* fallback write is refused too.
C20_RefusedWriteGoesToFallback ==
    [][\A name \in {"hash", "groups", "reviewed", "deleted"} :
          RefusedWrite(name) =>
             (~Denied("write_fallback") => (name \in fallback' /\ pc' # "idle"))]_vars

\* ------------------------------------------------------------- C21
\* C21: when the previous run was killed in its grouping pass, the groups it
\* had formed, which it had written to the group cache, are groups of the
\* run over the same files from the start of its hashing on: none of them
\* has to be formed again.
C21_InterruptedGroupingReused ==
    (run = 2 /\ hist.interrupted = "group" /\ pc \in {"hash", "group"}
       /\ hist.scanCur = hist.scanPrev) =>
        \A k \in 1..Len(hist.persistedPrev.groups) :
           \E m \in 1..Len(groups) : groups[m] = hist.persistedPrev.groups[k]

\* ------------------------------------------------------------- C22
\* C22: the grouping pass works on the images that are in no group of the
\* group state it started from, and every step of it leaves the groups
\* there are as they are: it appends at most one group, made of images that
\* were in no group.
C22_GroupingOnlyAppends ==
    /\ [](pc = "group" =>
            \A k \in 1..Len(ungrouped_hashes) :
               ungrouped_hashes[k].img \notin AllGroupFiles(hist.groupStart))
    /\ [][(pc = "group" /\ pc' = "group") =>
            /\ Len(groups') \in {Len(groups), Len(groups) + 1}
            /\ SubSeq(groups', 1, Len(groups)) = groups
            /\ Len(groups') > Len(groups) =>
                  GroupImgs(groups'[Len(groups')]) \cap AllGroupFiles(groups) = {}]_vars

\* C22 witness: a second group has been appended behind the first.
C22_Witness ==
    /\ pc = "group" /\ Len(groups) = 2
    /\ GroupImgs(groups[1]) \cap GroupImgs(groups[2]) = {}

\* ------------------------------------------------------------- C23
\* C23: a run that scans the very files the previous run scanned, files in
\* no group among them, keeps the groups and the visited set the previous
\* run persisted: it starts hashing with them.
C23_UnchangedFilesKeepGroupCache ==
    (run = 2 /\ pc = "hash" /\ hist.persistedPrev.kind = "data"
       /\ hist.scanCur = hist.scanPrev) =>
        /\ groups = hist.persistedPrev.groups
        /\ visited = hist.persistedPrev.visited

\* ------------------------------------------------------------- C24
\* C24: the reviewed cache and the deleted cache of a run are the files of
\* the target directory: what the run loads is what those files hold, and
\* no step of a run writes the files of that name in the working directory
\* when it is another directory, where a run on another target would find
\* them.
C24_CachesOfTargetDirectory ==
    /\ [](pc = "review" =>
            /\ reviewed_cache.items \subseteq dirReviewedFile.items
            /\ deleted_cache.items \subseteq dirDeletedFile.items)
    /\ [][~cwdIsDir => /\ cwdReviewedFile' = cwdReviewedFile
                       /\ cwdDeletedFile' = cwdDeletedFile]_vars

\* ------------------------------------------------------------- C25
\* C25 as the specification states it: at every point of the hashing loop
\* at most BlockSize newly computed hashes are not yet in the hash cache
\* file, and none is when hashing has ended.
C25_UnwrittenAtMostBlock ==
    /\ hist.unwritten <= BlockSize
    /\ pc = "hashed" => hist.unwritten = 0

\* C25, amended: at every point of the hashing loop at most BlockSize + 1
\* newly computed hashes are not yet in the hash cache file (the first flush
\* comes with the image of index BlockSize, the one after the first
\* BlockSize images), at most BlockSize between two images, and none when
\* hashing has ended.
C25_UnwrittenAtMostBlockPlusOne ==
    /\ hist.unwritten <= BlockSize + 1
    /\ pc = "hash" => hist.unwritten <= BlockSize
    /\ pc = "hashed" => hist.unwritten = 0

\* C25 witness: the hash of the image of index BlockSize has been computed,
\* and with it BlockSize + 1 hashes wait for the flush.
C25_Witness ==
    pc = "hash_flush" /\ i = BlockSize /\ hist.unwritten = BlockSize + 1

\* ------------------------------------------------------------- C26
\* C26: the relocation of an import file leaves every file there is in the
\* primary directory as it is, and the path it returns holds the file that
\* was moved.
C26_RelocationNeverOverwrites ==
    [][\A img \in Paths : Relocate(img) =>
          /\ \A q \in DOMAIN disk :
                (q.dir = "P" /\ Present(disk, q)) => disk'[q] = disk[q]
          /\ disk'[hist'.returned] = disk[img]
          /\ ~Present(disk', img)]_vars

\* ------------------------------------------------------------- C27
\* C27: in every state of a run an image path is a member of at most one
\* group, once; and a step of the grouping pass whose seed is in the
\* visited set forms no group: it changes neither groups nor visited, and
\* the first member of every group that is formed was not visited.
C27_OneGroupPerImage ==
    /\ [](\A a, b \in 1..Len(groups) :
             /\ Cardinality(GroupImgs(groups[a])) = Len(groups[a])
             /\ a # b => GroupImgs(groups[a]) \cap GroupImgs(groups[b]) = {})
    /\ [][(pc = "group" /\ pc' = "group") =>
            /\ ungrouped_hashes[i + 1].img \in visited =>
                  (groups' = groups /\ visited' = visited)
            /\ Len(groups') > Len(groups) =>
                  groups'[Len(groups')][1].img \notin visited]_vars

\* C27 witness: the pass has formed two groups and has come past every
\* member of them as a seed.
C27_Witness ==
    /\ pc = "group" /\ Len(groups) = 2 /\ i = Len(ungrouped_hashes) /\ i = 4
    /\ \A k \in 1..i : ungrouped_hashes[k].img \in visited

C29_GuardLeavesCachesIntact ==
    [][(pc = "guard" /\ pc' = "scan") =>
           /\ groupsFile' = groupsFile
           /\ dirReviewedFile' = dirReviewedFile
           /\ dirDeletedFile' = dirDeletedFile]_vars

\* ------------------------------------------------------------- C30
\* A decision that deletes or relocates files is being applied to the
\* current group.
Applying ==
    pc \in {"apply", "delete"} /\ result.action \in {"keep_one", "delete_all"}

\* The review loop passes over the group whose decision the run before was
\* interrupted in applying.
SkipsInterruptedGroup ==
    /\ pc = "review"
    /\ pc' = "review"
    /\ idx' = idx + 1
    /\ hist.interruptedGroup # <<>>
    /\ GroupId(groups[idx + 1]) = hist.interruptedGroup

\* C30: the identity of a group is in the persisted reviewed set only once
\* the deletions and the relocation of its decision are carried out; a group
\* whose decision was interrupted while it was applied is presented again by
\* the next run, never passed over.
C30_ReviewedAfterApplied ==
    /\ [](Applying => GroupId(groups[idx + 1]) \notin ReviewedFile.items)
    /\ [][~SkipsInterruptedGroup]_vars

====
